---- MODULE Spec2Model ----
(***************************************************************************)
(* Model of src/src/Dice/Dice.py: the Dice class (sides, count, previous)  *)
(* and the stateless DiceMath helper (average, max, min, rollDropLow).     *)
(*                                                                         *)
(* Python values are modelled as records [kind, n]: kind "int" carries the *)
(* integer n; kind "str" stands for an argument that is not an integer     *)
(* (isinstance(v, int) is False); kind "float" carries a float as a number *)
(* of halves (n = 2 * value), which is exact for DiceMath.average.         *)
(* One Dice object is modelled; `call` records the last call made: its     *)
(* arguments, its outcome (returned, or the exception raised and the       *)
(* parameter the message names), the local `values` drawn, the number of   *)
(* roll() invocations and random.randint draws, and the object's fields    *)
(* before the call.  `rolled` records that some roll has completed.        *)
(***************************************************************************)
EXTENDS Integers, Sequences, FiniteSets

VARIABLES constructed, dice, rolled, call

vars == <<constructed, dice, rolled, call>>

\* Bounds of the explored inputs.
MaxSides == 2
MaxCount == 3

IntV(n) == [kind |-> "int", n |-> n]
StrV == [kind |-> "str", n |-> 0]
FloatHalves(h) == [kind |-> "float", n |-> h]
None == [kind |-> "none", n |-> 0]

\* Arguments tried for sides, count and lowest: negative, zero, positive
\* integers and a non-integer.
SidesArgs == {IntV(n) : n \in -1..MaxSides} \cup {StrV}
CountArgs == {IntV(n) : n \in -1..MaxCount} \cup {StrV}
LowestArgs == {IntV(n) : n \in -1..MaxCount} \cup {StrV}

NoDice == [sides |-> None, count |-> None, previous |-> <<>>]

NoCall ==
    [op |-> "none", isDice |-> FALSE, argSides |-> None, argCount |-> None,
     lowest |-> None, outcome |-> "ok", errParam |-> "none",
     retSeq |-> <<>>, retVal |-> None, values |-> <<>>, rolls |-> 0,
     draws |-> 0, before |-> NoDice]

Range(s) == {s[i] : i \in 1..Len(s)}

----------------------------------------------------------------------------
(* Pure parts of the code *)

\* isinstance(v, int) and v >= 0
isNonNegInt(v) == v.kind = "int" /\ v.n >= 0

\* Dice.__init__, first check: not (isinstance(sides,int) and sides>=0) raises
sidesCheck(s, c) == isNonNegInt(s)

\* Dice.__init__, second check: the condition tests sides again, not count
countCheck(s, c) == isNonNegInt(s)

\* self.__previous = values
\* (variant that appends to the earlier roll instead of replacing it)
storePrevious_Append(old, values) == old \o values
storePrevious(old, values) == values

\* values = [0] * count; if sides > 0: values[i] = random.randint(1, sides)
\* The set of sequences one roll can produce ([0] * c is [] for c <= 0).
\* (variant drawing from 0..sides)
rollValues_FromZero(s, c) ==
    IF c <= 0 THEN {<<>>}
    ELSE [1..c -> 0..s]
rollValues(s, c) ==
    IF c <= 0 THEN {<<>>}
    ELSE IF s > 0 THEN [1..c -> 1..s]
    ELSE [1..c -> {0}]

\* number of random.randint calls made by one roll
rollDraws(s, c) == IF s > 0 /\ c > 0 THEN c ELSE 0

RECURSIVE sum(_)
sum(s) == IF s = <<>> THEN 0 ELSE Head(s) + sum(Tail(s))

\* rollSum's return: 0 if count <= 0 or len(values) <= 0, else sum(values)
rollSumResult(c, values) ==
    IF c <= 0 \/ Len(values) <= 0 THEN 0 ELSE sum(values)

\* previousSum's return: 0 if count <= 0 or len(previous) <= 0
previousSumResult(c, prev) ==
    IF c <= 0 \/ Len(prev) <= 0 THEN 0 ELSE sum(prev)

\* DiceMath._checkDice: passes iff isinstance(obj, Dice)
\* (variant that accepts any object)
checkDice_Any(isDice) == TRUE
checkDice(isDice) == isDice

\* DiceMath.rollDropLow: not (not isinstance(lowest,int) or lowest < 0)
\* (variant without the lowest < 0 test)
lowestCheck_NoSign(l) == l.kind = "int"
lowestCheck(l) == l.kind = "int" /\ l.n >= 0

\* DiceMath.rollDropLow: if lowest >= dice.count(): return []
\* (variant with > for >=)
dropAll_Strict(l, c) == l > c
dropAll(l, c) == l >= c

\* DiceMath.average: count * ((sides / 2.0) + 0.5), in halves; 0.0 if sides = 0
averageResult(s, c) == IF s > 0 THEN FloatHalves(c * (s + 1)) ELSE FloatHalves(0)

\* DiceMath.max: count * sides if sides > 0 else 0.  A str count times an
\* int is a str.
\* (variant that forgets the count factor)
maxResult_PerDie(s, c) ==
    IF s > 0 THEN (IF c.kind = "int" THEN IntV(s) ELSE StrV) ELSE IntV(0)
maxResult(s, c) ==
    IF s > 0 THEN (IF c.kind = "int" THEN IntV(c.n * s) ELSE StrV) ELSE IntV(0)

\* DiceMath.min: count if sides > 0 else 0
minResult(s, c) == IF s > 0 THEN c ELSE IntV(0)

\* builtin min(result)
listMin(s) == CHOOSE m \in Range(s) : \A e \in Range(s) : m <= e

\* list.remove(x): deletes the first occurrence of x
\* (variant deleting the last occurrence)
RECURSIVE remove_Last(_, _)
remove_Last(s, x) ==
    IF s = <<>> THEN <<>>
    ELSE IF s[Len(s)] = x THEN SubSeq(s, 1, Len(s) - 1)
    ELSE remove_Last(SubSeq(s, 1, Len(s) - 1), x) \o <<s[Len(s)]>>
RECURSIVE remove(_, _)
remove(s, x) ==
    IF s = <<>> THEN <<>>
    ELSE IF Head(s) = x THEN Tail(s)
    ELSE <<Head(s)>> \o remove(Tail(s), x)

\* for i in range(lowest): result.remove(min(result))
RECURSIVE dropLow(_, _)
dropLow(result, k) ==
    IF k <= 0 THEN result
    ELSE dropLow(remove(result, listMin(result)), k - 1)

----------------------------------------------------------------------------
(* State machine *)

Init ==
    /\ constructed = FALSE
    /\ dice = NoDice
    /\ rolled = FALSE
    /\ call = NoCall

Raise(c, kind, param) ==
    /\ call' = [c EXCEPT !.outcome = kind, !.errParam = param]
    /\ UNCHANGED <<constructed, dice, rolled>>

\* Dice.__init__(sides, count)
Dice_init ==
    /\ ~constructed
    /\ \E s \in SidesArgs, c \in CountArgs :
        LET this == [NoCall EXCEPT !.op = "init", !.argSides = s, !.argCount = c]
        IN  IF ~sidesCheck(s, c) THEN Raise(this, "ValueError", "sides")
            ELSE IF ~countCheck(s, c) THEN Raise(this, "ValueError", "count")
            ELSE /\ dice' = [sides |-> s, count |-> c, previous |-> <<>>]
                 /\ constructed' = TRUE
                 /\ call' = this
                 /\ UNCHANGED rolled

Method(name) == [NoCall EXCEPT !.op = name, !.isDice = TRUE, !.before = dice]

\* Dice.sides()
sides ==
    /\ constructed
    /\ call' = [Method("sides") EXCEPT !.retVal = dice.sides]
    /\ UNCHANGED <<constructed, dice, rolled>>

\* Dice.count()
count ==
    /\ constructed
    /\ call' = [Method("count") EXCEPT !.retVal = dice.count]
    /\ UNCHANGED <<constructed, dice, rolled>>

\* Dice.previous()
previous ==
    /\ constructed
    /\ call' = [Method("previous") EXCEPT !.retSeq = dice.previous]
    /\ UNCHANGED <<constructed, dice, rolled>>

\* Dice.previousSum(): count <= 0 raises TypeError for a str count
previousSum ==
    /\ constructed
    /\ IF dice.count.kind # "int" THEN Raise(Method("previousSum"), "TypeError", "none")
       ELSE /\ call' = [Method("previousSum") EXCEPT
                           !.retVal = IntV(previousSumResult(dice.count.n, dice.previous))]
            /\ UNCHANGED <<constructed, dice, rolled>>

\* Dice.rollSum(): [0] * count raises TypeError for a str count
rollSum ==
    /\ constructed
    /\ IF dice.count.kind # "int" THEN Raise(Method("rollSum"), "TypeError", "none")
       ELSE \E values \in rollValues(dice.sides.n, dice.count.n) :
            /\ dice' = [dice EXCEPT !.previous = storePrevious(dice.previous, values)]
            /\ rolled' = TRUE
            /\ call' = [Method("rollSum") EXCEPT
                           !.retVal = IntV(rollSumResult(dice.count.n, values)),
                           !.values = values,
                           !.rolls = 1,
                           !.draws = rollDraws(dice.sides.n, dice.count.n)]
            /\ UNCHANGED constructed

\* Dice.roll()
roll ==
    /\ constructed
    /\ IF dice.count.kind # "int" THEN Raise(Method("roll"), "TypeError", "none")
       ELSE \E values \in rollValues(dice.sides.n, dice.count.n) :
            /\ dice' = [dice EXCEPT !.previous = storePrevious(dice.previous, values)]
            /\ rolled' = TRUE
            /\ call' = [Method("roll") EXCEPT
                           !.retSeq = values,
                           !.values = values,
                           !.rolls = 1,
                           !.draws = rollDraws(dice.sides.n, dice.count.n)]
            /\ UNCHANGED constructed

\* A DiceMath call whose dice argument is the Dice object (isDice) or
\* something else.
Math(name, isDice) == [NoCall EXCEPT !.op = name, !.isDice = isDice, !.before = dice]

\* DiceMath.average(dice): a str count times a float raises TypeError
average ==
    \E isDice \in BOOLEAN :
        /\ isDice => constructed
        /\ IF ~checkDice(isDice) THEN Raise(Math("average", isDice), "ValueError", "dice")
           ELSE IF dice.sides.n > 0 /\ dice.count.kind # "int"
                THEN Raise(Math("average", isDice), "TypeError", "none")
           ELSE /\ call' = [Math("average", isDice) EXCEPT
                               !.retVal = averageResult(dice.sides.n, dice.count.n)]
                /\ UNCHANGED <<constructed, dice, rolled>>

\* DiceMath.max(dice)
max ==
    \E isDice \in BOOLEAN :
        /\ isDice => constructed
        /\ IF ~checkDice(isDice) THEN Raise(Math("max", isDice), "ValueError", "dice")
           ELSE /\ call' = [Math("max", isDice) EXCEPT
                               !.retVal = maxResult(dice.sides.n, dice.count)]
                /\ UNCHANGED <<constructed, dice, rolled>>

\* DiceMath.min(dice)
min ==
    \E isDice \in BOOLEAN :
        /\ isDice => constructed
        /\ IF ~checkDice(isDice) THEN Raise(Math("min", isDice), "ValueError", "dice")
           ELSE /\ call' = [Math("min", isDice) EXCEPT
                               !.retVal = minResult(dice.sides.n, dice.count)]
                /\ UNCHANGED <<constructed, dice, rolled>>

\* DiceMath.rollDropLow(dice, lowest): lowest is checked first, then dice;
\* lowest >= dice.count() raises TypeError for a str count.
rollDropLow ==
    \E isDice \in BOOLEAN, lowest \in LowestArgs :
        LET this == [Math("rollDropLow", isDice) EXCEPT !.lowest = lowest]
        IN  /\ isDice => constructed
            /\ IF ~lowestCheck(lowest) THEN Raise(this, "ValueError", "lowest")
               ELSE IF ~checkDice(isDice) THEN Raise(this, "ValueError", "dice")
               ELSE IF dice.count.kind # "int" THEN Raise(this, "TypeError", "none")
               ELSE IF dropAll(lowest.n, dice.count.n)
                    THEN /\ call' = this
                         /\ UNCHANGED <<constructed, dice, rolled>>
               ELSE \E values \in rollValues(dice.sides.n, dice.count.n) :
                    /\ dice' = [dice EXCEPT !.previous = storePrevious(dice.previous, values)]
                    /\ rolled' = TRUE
                    /\ call' = [this EXCEPT
                                   !.retSeq = dropLow(values, lowest.n),
                                   !.values = values,
                           !.rolls = 1,
                                   !.draws = rollDraws(dice.sides.n, dice.count.n)]
                    /\ UNCHANGED constructed

Next ==
    \/ Dice_init
    \/ sides
    \/ count
    \/ previous
    \/ previousSum
    \/ rollSum
    \/ roll
    \/ average
    \/ max
    \/ min
    \/ rollDropLow

Spec == Init /\ [][Next]_vars

----------------------------------------------------------------------------
(* Properties *)

MathOps == {"average", "max", "min", "rollDropLow"}

Returned(name) == call.op = name /\ call.outcome = "ok"

ValidDice(d) == isNonNegInt(d.sides) /\ isNonNegInt(d.count)

\* What previousSum() returns if called in the current state (None: raises).
PreviousSumNow ==
    IF dice.count.kind = "int"
    THEN IntV(previousSumResult(dice.count.n, dice.previous))
    ELSE None

\* C1: constructing a Dice raises ValueError whenever sides or count is not
\* a non-negative integer, so no Dice with sides < 0 or count < 0 (or a
\* non-integer field) ever exists.
C1_ConstructorValidatesBoth ==
    /\ (call.op = "init" /\ ~(isNonNegInt(call.argSides) /\ isNonNegInt(call.argCount)))
          => call.outcome = "ValueError"
    /\ constructed => ValidDice(dice)

\* C2: on a Dice with sides >= 0 and count >= 0, roll() returns exactly
\* count elements, each in 1..sides if sides > 0 and each 0 (with no draw)
\* if sides = 0; the empty sequence if count = 0.
C2_RollShape ==
    (call.op = "roll" /\ ValidDice(call.before)) =>
        /\ call.outcome = "ok"
        /\ Len(call.retSeq) = dice.count.n
        /\ dice.sides.n > 0 => \A i \in 1..Len(call.retSeq) : call.retSeq[i] \in 1..dice.sides.n
        /\ dice.sides.n = 0 =>
              /\ \A i \in 1..Len(call.retSeq) : call.retSeq[i] = 0
              /\ call.draws = 0
        /\ dice.count.n = 0 => call.retSeq = <<>>

C2_Witness ==
    /\ Returned("roll")
    /\ ValidDice(call.before)
    /\ dice.sides.n >= 2
    /\ Len(call.retSeq) >= 2
    /\ call.retSeq[1] # call.retSeq[2]

\* C3: previous is empty or has exactly count elements in every reachable
\* state, is empty until a roll happens, and every roll or rollSum replaces
\* it by the newly drawn sequence.
C3_PreviousLength ==
    constructed =>
        /\ \/ dice.previous = <<>>
           \/ dice.count.kind = "int" /\ Len(dice.previous) = dice.count.n
        /\ ~rolled => dice.previous = <<>>
        /\ (Returned("roll") \/ Returned("rollSum")) => dice.previous = call.values
        /\ Returned("roll") => dice.previous = call.retSeq

C3_Witness ==
    /\ Returned("rollSum")
    /\ call.before.previous # <<>>
    /\ dice.previous # call.before.previous
    /\ Len(dice.previous) = dice.count.n

\* C4: rollSum() stores the per-die sequence and returns its sum, so
\* previousSum() right after rollSum() equals what rollSum() returned, and
\* right after roll() equals the sum of the returned sequence;
\* previousSum() is 0 before the first roll.
C4_SumsAgree ==
    /\ Returned("rollSum") =>
          /\ dice.previous = call.values
          /\ call.retVal = IntV(sum(dice.previous))
          /\ PreviousSumNow = call.retVal
    /\ Returned("roll") => PreviousSumNow = IntV(sum(call.retSeq))
    /\ (call.op = "previousSum" /\ ~rolled) =>
          /\ call.outcome = "ok"
          /\ call.retVal = IntV(0)

\* The positions of the k smallest elements of s, ties going to the
\* earlier position.
LowestPositions(s, k) ==
    CHOOSE D \in SUBSET (1..Len(s)) :
        /\ Cardinality(D) = k
        /\ \A i \in D : \A j \in (1..Len(s)) \ D :
              s[i] < s[j] \/ (s[i] = s[j] /\ i < j)

RECURSIVE Without(_, _, _)
Without(s, D, i) ==
    IF i > Len(s) THEN <<>>
    ELSE (IF i \in D THEN <<>> ELSE <<s[i]>>) \o Without(s, D, i + 1)

\* C5: for 0 <= lowest < count, rollDropLow rolls exactly once, leaves the
\* full roll in previous, and returns the roll without its `lowest`
\* smallest elements (first occurrences first), in the roll's order: count -
\* lowest elements, and the roll itself for lowest = 0.
C5_DropLowResult ==
    ( /\ call.op = "rollDropLow"
      /\ call.isDice
      /\ isNonNegInt(call.lowest)
      /\ call.before.count.kind = "int"
      /\ call.lowest.n < call.before.count.n ) =>
        /\ call.outcome = "ok"
        /\ call.rolls = 1
        /\ dice.previous = call.values
        /\ Len(dice.previous) = dice.count.n
        /\ Len(call.retSeq) = dice.count.n - call.lowest.n
        /\ call.retSeq =
              Without(dice.previous, LowestPositions(dice.previous, call.lowest.n), 1)
        /\ call.lowest.n = 0 => call.retSeq = dice.previous

C5_Witness ==
    /\ Returned("rollDropLow")
    /\ call.lowest = IntV(1)
    /\ dice.previous = <<1, 2, 1>>
    /\ call.retSeq = <<2, 1>>

\* C6: when lowest >= count (lowest a non-negative integer, dice a Dice),
\* rollDropLow returns the empty sequence without rolling: no draw is made
\* and the Dice is exactly as it was before the call.
C6_DropAllNoRoll ==
    ( /\ call.op = "rollDropLow"
      /\ call.isDice
      /\ isNonNegInt(call.lowest)
      /\ call.before.count.kind = "int"
      /\ call.lowest.n >= call.before.count.n ) =>
        /\ call.outcome = "ok"
        /\ call.retSeq = <<>>
        /\ call.rolls = 0
        /\ call.draws = 0
        /\ dice = call.before

C6_Witness ==
    /\ Returned("rollDropLow")
    /\ call.isDice
    /\ call.lowest.n = dice.count.n
    /\ dice.count.n >= 2
    /\ dice.previous # <<>>
    /\ call.retSeq = <<>>

\* C7 as stated: every DiceMath operation called with something that is
\* not a Dice fails with the dice-argument error, before any other check or
\* effect, whatever lowest is.
C7_DiceCheckedFirst ==
    (call.op \in MathOps /\ ~call.isDice) =>
        /\ call.outcome = "ValueError"
        /\ call.errParam = "dice"
        /\ call.rolls = 0
        /\ dice = call.before

\* C7 as amended: every DiceMath operation called with something that is
\* not a Dice fails with ValueError before any effect; the error names the
\* dice argument, except that rollDropLow checks lowest first and names
\* lowest when lowest is not a non-negative integer.
C7_DiceCheckedBeforeEffect ==
    (call.op \in MathOps /\ ~call.isDice) =>
        /\ call.outcome = "ValueError"
        /\ call.errParam =
              IF call.op = "rollDropLow" /\ ~isNonNegInt(call.lowest)
              THEN "lowest" ELSE "dice"
        /\ call.rolls = 0
        /\ call.draws = 0
        /\ dice = call.before

C7_Witness ==
    /\ call.op = "rollDropLow"
    /\ ~call.isDice
    /\ call.lowest = IntV(-1)
    /\ call.outcome = "ValueError"
    /\ call.errParam = "lowest"

\* C8: rollDropLow with a lowest that is not a non-negative integer raises
\* ValueError for every dice argument, and a DiceMath call that fails has
\* rolled nothing and left the Dice as it was.
C8_FailedCallAtomic ==
    /\ (call.op = "rollDropLow" /\ ~isNonNegInt(call.lowest)) =>
          call.outcome = "ValueError"
    /\ (call.op \in MathOps /\ call.outcome # "ok") =>
          /\ call.rolls = 0
          /\ call.draws = 0
          /\ dice = call.before

C8_Witness ==
    /\ call.op = "rollDropLow"
    /\ call.isDice
    /\ call.lowest = IntV(-1)
    /\ call.outcome = "ValueError"
    /\ dice.previous # <<>>
    /\ dice = call.before

\* C9: on a Dice with sides >= 0 and count >= 0, max is 0 if sides = 0 and
\* count * sides otherwise, min is 0 if sides = 0 and count otherwise; both
\* are 0 when sides or count is 0, neither rolls or changes the Dice, and
\* min <= max.
C9_MaxMinValues ==
    /\ (call.op = "max" /\ call.isDice /\ ValidDice(call.before)) =>
          /\ call.outcome = "ok"
          /\ call.retVal =
                IntV(IF dice.sides.n = 0 THEN 0 ELSE dice.count.n * dice.sides.n)
          /\ (dice.sides.n = 0 \/ dice.count.n = 0) => call.retVal = IntV(0)
          /\ call.rolls = 0
          /\ dice = call.before
    /\ (call.op = "min" /\ call.isDice /\ ValidDice(call.before)) =>
          /\ call.outcome = "ok"
          /\ call.retVal = IntV(IF dice.sides.n = 0 THEN 0 ELSE dice.count.n)
          /\ (dice.sides.n = 0 \/ dice.count.n = 0) => call.retVal = IntV(0)
          /\ call.rolls = 0
          /\ dice = call.before
    /\ (constructed /\ ValidDice(dice)) =>
          minResult(dice.sides.n, dice.count).n <= maxResult(dice.sides.n, dice.count).n

C9_Witness ==
    /\ Returned("max")
    /\ call.isDice
    /\ ValidDice(dice)
    /\ dice.sides.n >= 2
    /\ dice.count.n >= 2
    /\ dice.previous # <<>>
    /\ call.retVal = IntV(dice.count.n * dice.sides.n)

\* C10: every value rollSum() returns, and every value previousSum()
\* returns once a roll has happened, lies between DiceMath.min(dice) and
\* DiceMath.max(dice).
C10_SumWithinMinMax ==
    (Returned("rollSum") \/ (Returned("previousSum") /\ rolled)) =>
        /\ minResult(dice.sides.n, dice.count).n <= call.retVal.n
        /\ call.retVal.n <= maxResult(dice.sides.n, dice.count).n

====
